---- MODULE Spec2Model ----
(***************************************************************************)
(* Model of src/model.py: the Streamlit revenue-projection script.         *)
(*                                                                         *)
(* The script is re-executed from top to bottom on every interaction: one  *)
(* rerun per widget change or button click.  The session state (horizon,   *)
(* vm_month, extension_active) survives between reruns; everything else is *)
(* recomputed by each rerun.  One action below is one whole rerun: the     *)
(* button handler (if any) followed by the computation of all the series.  *)
(*                                                                         *)
(* Numbers.  The script computes in float64; the model computes the same   *)
(* quantities as integers in fixed units:                                  *)
(*   - a confidence c is held as c * CONF_T^CONF_P (thousandths): the      *)
(*     curve 1 - (t/T)^p is then the integer T^p - t^p, exactly;           *)
(*   - the logistic s is held as floor(s * SigScale) (ten-thousandths):    *)
(*     it is exact at the calibration points (1%, 50%, 99%) and truncated  *)
(*     elsewhere, so a value of the script below 1e-4 is 0 here;           *)
(*   - a physician count is held in 1/SigScale physicians, a treatment     *)
(*     rate in percent, and the products keep the product of the units     *)
(*     (RevScale for a revenue), with no further rounding.                 *)
(***************************************************************************)
EXTENDS Integers, Sequences, FiniteSets, TLC

\* ------------------------------------------------------------------ constants
CONF_T == 10
CONF_P == 3
ACQ_LENGTH == 6
EXTENSION_MONTHS == 12
COUT_PROJET == 50000

\* st.session_state.horizon = 12
INIT_HORIZON == 12
\* revenu_cumule[min(12, len(revenu_cumule)-1)]
ROI_MONTH == 12

\* st.session_state.vm_month = None ; a set month m is held as <<m>>
None == <<>>
Some(m) == <<m>>
Month(v) == v[1]

\* ------------------------------------------------------------------ bounds
\* number of clicks on the extension button explored
MaxExtensions == 2
\* sidebar values explored: sliders 1..2000, 0..5000, 0..100, 0..100 and the
\* price input >= 0.  Kept small: every series is linear in each of them, and
\* a cumulated revenue in 1/RevScale euro has to stay an integer TLC can hold.
NbMedTargetValues == {1, 2}
NbMedNewValues == {0, 1}
PotDiagValues == {0, 1}
TauxTraitPctValues == {0, 1}
PrixValues == {0, 1}

\* ------------------------------------------------------------------ helpers
RECURSIVE Pow(_, _)
Pow(b, e) == IF e = 0 THEN 1 ELSE b * Pow(b, e - 1)

Min(a, b) == IF a <= b THEN a ELSE b
Max(a, b) == IF a >= b THEN a ELSE b

\* np.clip(x, lo, hi)
clip(x, lo, hi) == Max(lo, Min(x, hi))

\* unit of a confidence value: 1.0 is ConfScale
ConfScale == Pow(CONF_T, CONF_P)
\* unit of the logistic: 1.0 is SigScale
SigScale == Pow(10, 4)
\* unit of a revenue: 1 euro is RevScale (physicians x confidence x percent)
RevScale == SigScale * ConfScale * 100

\* t = np.arange(0, T_end + 1): an array is a function on its indices 0 .. n-1
arange(T_end) == [i \in 0 .. T_end |-> i]

\* floor(SigScale / (1 + 99^(n/3))) for n = 0, 1, 2, ...: the logistic
\* 1 / (1 + exp(-k (t - t0))) with k = 2 ln(99) / 6, at n = t0 - t months
\* before its centre.  From n = 7 on the value is below 1/SigScale.
LogisticTail == <<5000, 1777, 446, 100, 21, 4, 1>>
LogisticBelow(n) == IF n + 1 <= Len(LogisticTail) THEN LogisticTail[n + 1] ELSE 0

\* s = 1 / (1 + np.exp(-k * (t - t0))), k = 2 ln(99) / length, for the
\* script's only length (ACQ_LENGTH = 6); above the centre it is 1 - s(t0 - x).
Logistic(t, t0) ==
    IF t <= t0 THEN LogisticBelow(t0 - t) ELSE SigScale - LogisticBelow(t - t0)

sigmoid_acquisition(t, start_t, target_increment, length) ==
    IF length <= 0 \/ target_increment <= 0
    THEN [i \in DOMAIN t |-> 0]
    ELSE LET t0 == start_t + length \div 2
         IN [i \in DOMAIN t |->
                target_increment * clip(Logistic(t[i], t0), 0, SigScale)]

\* variant of confidence_inverted_drop: no upper mask t <= T and no clip
confidence_inverted_drop_unmasked(t, T, p) ==
    [i \in DOMAIN t |-> IF t[i] >= 0 THEN Pow(T, p) - Pow(t[i], p) ELSE 0]

confidence_inverted_drop(t, T, p) ==
    [i \in DOMAIN t |->
        LET mask == t[i] >= 0 /\ t[i] <= T
            c == IF mask THEN Pow(T, p) - Pow(t[i], p) ELSE 0
        IN clip(c, 0, Pow(T, p))]

\* variant of confidence_with_vm_inverted: np.minimum in place of np.maximum
confidence_with_vm_inverted_min(t, vm, T, p) ==
    LET c_base == confidence_inverted_drop(t, T, p)
    IN IF vm = None
       THEN c_base
       ELSE LET tau == [i \in DOMAIN t |-> Max(0, t[i] - Month(vm))]
                c_vm == confidence_inverted_drop(tau, T, p)
            IN [i \in DOMAIN t |-> Min(c_base[i], c_vm[i])]

confidence_with_vm_inverted(t, vm, T, p) ==
    LET c_base == confidence_inverted_drop(t, T, p)
    IN IF vm = None
       THEN c_base
       ELSE LET tau == [i \in DOMAIN t |-> Max(0, t[i] - Month(vm))]
                c_vm == confidence_inverted_drop(tau, T, p)
            IN [i \in DOMAIN t |-> Max(c_base[i], c_vm[i])]

\* ------------------------------------------------------------------ state
\* session state; sidebar values of the run; the series the run computed;
\* history: extension clicks so far, month of the last campaign click
VARIABLES
    horizon, vm_month, extension_active,
    prix, nb_med_target, pot_diag, taux_trait_pct, nb_med_new,
    med_phase1, med_phase2, med_t, c_t, diag_t, traites_t,
    revenu_mensuel, revenu_cumule, roi,
    n_ext, last_campaign

session == <<horizon, vm_month, extension_active>>
sidebar == <<prix, nb_med_target, pot_diag, taux_trait_pct, nb_med_new>>
series == <<med_phase1, med_phase2, med_t, c_t, diag_t, traites_t,
            revenu_mensuel, revenu_cumule, roi>>
history == <<n_ext, last_campaign>>
vars == <<session, sidebar, series, history>>

\* ------------------------------------------------------------------ one run
\* med_phase1
MedPhase1(t, target) == sigmoid_acquisition(t, 0, target, ACQ_LENGTH)

\* t_ext_start = 12
t_ext_start == 12

\* variant of MedPhase2: the wave anchored at the latest extension boundary,
\* T_end - EXTENSION_MONTHS, instead of the fixed month 12
MedPhase2AtLastBoundary(t, ext, new) ==
    IF ext
    THEN sigmoid_acquisition(t, (Cardinality(DOMAIN t) - 1) - EXTENSION_MONTHS,
                             new, ACQ_LENGTH)
    ELSE [i \in DOMAIN t |-> 0]

\* med_phase2: the extension wave, or np.zeros_like(t)
MedPhase2(t, ext, new) ==
    IF ext
    THEN sigmoid_acquisition(t, t_ext_start, new, ACQ_LENGTH)
    ELSE [i \in DOMAIN t |-> 0]

\* med_t = med_phase1 + med_phase2
MedT(phase1, phase2) == [i \in DOMAIN phase1 |-> phase1[i] + phase2[i]]

\* c_t
CT(t, vm) ==
    IF vm # None
    THEN confidence_with_vm_inverted(t, vm, CONF_T, CONF_P)
    ELSE confidence_inverted_drop(t, CONF_T, CONF_P)

\* variant of DiagT: the confidence factor left out
DiagTWithoutConfidence(med, pot, c) == [i \in DOMAIN med |-> med[i] * pot]

\* diag_t = med_t * pot_diag * c_t
DiagT(med, pot, c) == [i \in DOMAIN med |-> med[i] * pot * c[i]]

\* traites_t = diag_t * taux_trait, taux_trait = taux_trait_pct / 100.0 (in percent)
TraitesT(diag, taux_pct) == [i \in DOMAIN diag |-> diag[i] * taux_pct]

\* revenu_mensuel = traites_t * prix
RevenuMensuel(traites, p) == [i \in DOMAIN traites |-> traites[i] * p]

\* the running sums a[0], a[0] + a[1], ..., up to index n, as a sequence
RECURSIVE running(_, _)
running(a, n) ==
    IF n = 0
    THEN <<a[0]>>
    ELSE LET r == running(a, n - 1) IN Append(r, r[n] + a[n])

\* variant of cumsum: the array itself, nothing accumulated
cumsum_none(a) == a

\* np.cumsum(a)
cumsum(a) ==
    LET r == running(a, Cardinality(DOMAIN a) - 1) IN [i \in DOMAIN a |-> r[i + 1]]

\* variant of RoiIndex: the last index of the array
RoiIndexLast(len) == len - 1

\* min(12, len(revenu_cumule) - 1)
RoiIndex(len) == Min(ROI_MONTH, len - 1)

\* roi = (revenu_12m - COUT_PROJET) / COUT_PROJET if COUT_PROJET > 0 else None
\* The quotient is held by its operands <<revenu_12m, cout>>, revenu_12m in
\* 1/RevScale euro and cout in euro: the value (revenu_12m / RevScale - cout) / cout.
Roi(revenu_12m, cout) == IF cout > 0 THEN <<revenu_12m, cout>> ELSE None

\* lines 97-135 of the script, run on the next state's session and sidebar
Rerun ==
    LET t == arange(horizon')
    IN /\ med_phase1' = MedPhase1(t, nb_med_target')
       /\ med_phase2' = MedPhase2(t, extension_active', nb_med_new')
       /\ med_t' = MedT(med_phase1', med_phase2')
       /\ c_t' = CT(t, vm_month')
       /\ diag_t' = DiagT(med_t', pot_diag', c_t')
       /\ traites_t' = TraitesT(diag_t', taux_trait_pct')
       /\ revenu_mensuel' = RevenuMensuel(traites_t', prix')
       /\ revenu_cumule' = cumsum(revenu_mensuel')
       /\ roi' = Roi(revenu_cumule'[RoiIndex(Cardinality(DOMAIN revenu_cumule'))],
                     COUT_PROJET)

\* ------------------------------------------------------------------ init
\* the first run of a session: session-state defaults, any sidebar values
Init ==
    /\ horizon = INIT_HORIZON
    /\ vm_month = None
    /\ extension_active = FALSE
    /\ prix \in PrixValues
    /\ nb_med_target \in NbMedTargetValues
    /\ pot_diag \in PotDiagValues
    /\ taux_trait_pct \in TauxTraitPctValues
    /\ nb_med_new \in NbMedNewValues
    /\ n_ext = 0
    /\ last_campaign = None
    /\ LET t == arange(horizon)
       IN /\ med_phase1 = MedPhase1(t, nb_med_target)
          /\ med_phase2 = MedPhase2(t, extension_active, nb_med_new)
          /\ med_t = MedT(med_phase1, med_phase2)
          /\ c_t = CT(t, vm_month)
          /\ diag_t = DiagT(med_t, pot_diag, c_t)
          /\ traites_t = TraitesT(diag_t, taux_trait_pct)
          /\ revenu_mensuel = RevenuMensuel(traites_t, prix)
          /\ revenu_cumule = cumsum(revenu_mensuel)
          /\ roi = Roi(revenu_cumule[RoiIndex(Cardinality(DOMAIN revenu_cumule))],
                       COUT_PROJET)

\* ------------------------------------------------------------------ actions
\* a sidebar widget is moved: a rerun with no button pressed
ChangeParameter ==
    /\ \/ /\ prix' \in PrixValues \ {prix}
          /\ UNCHANGED <<nb_med_target, pot_diag, taux_trait_pct, nb_med_new>>
       \/ /\ nb_med_target' \in NbMedTargetValues \ {nb_med_target}
          /\ UNCHANGED <<prix, pot_diag, taux_trait_pct, nb_med_new>>
       \/ /\ pot_diag' \in PotDiagValues \ {pot_diag}
          /\ UNCHANGED <<prix, nb_med_target, taux_trait_pct, nb_med_new>>
       \/ /\ taux_trait_pct' \in TauxTraitPctValues \ {taux_trait_pct}
          /\ UNCHANGED <<prix, nb_med_target, pot_diag, nb_med_new>>
       \/ /\ nb_med_new' \in NbMedNewValues \ {nb_med_new}
          /\ UNCHANGED <<prix, nb_med_target, pot_diag, taux_trait_pct>>
    /\ UNCHANGED <<session, history>>
    /\ Rerun

\* variant of VmSelectRange: a slider that reaches one extension past the horizon
VmSelectRangePastHorizon == 0 .. (horizon + EXTENSION_MONTHS)

\* st.sidebar.slider("Mois de la campagne VM", 0, horizon, ...)
VmSelectRange == 0 .. horizon

\* variant of TriggerCampaign: a click keeps a campaign month already set
TriggerCampaignKeepFirst ==
    \E vm_select \in VmSelectRange :
        /\ vm_month' = IF vm_month = None THEN Some(vm_select) ELSE vm_month
        /\ last_campaign' = Some(vm_select)
        /\ UNCHANGED <<horizon, extension_active, sidebar, n_ext>>
        /\ Rerun

\* "Lancer une campagne VM" is clicked with the slider at vm_select
TriggerCampaign ==
    \E vm_select \in VmSelectRange :
        /\ vm_month' = Some(vm_select)
        /\ last_campaign' = Some(vm_select)
        /\ UNCHANGED <<horizon, extension_active, sidebar, n_ext>>
        /\ Rerun

\* variant of extended_horizon: horizon = 12 + EXTENSION_MONTHS, not +=
extended_horizon_fixed(h) == INIT_HORIZON + EXTENSION_MONTHS

\* st.session_state.horizon += EXTENSION_MONTHS
extended_horizon(h) == h + EXTENSION_MONTHS

\* "Ajouter +12 mois & recruter" is clicked
ExtendHorizon ==
    /\ n_ext < MaxExtensions
    /\ horizon' = extended_horizon(horizon)
    /\ extension_active' = TRUE
    /\ n_ext' = n_ext + 1
    /\ UNCHANGED <<vm_month, sidebar, last_campaign>>
    /\ Rerun

Next == ChangeParameter \/ TriggerCampaign \/ ExtendHorizon

Spec == Init /\ [][Next]_vars

\* ------------------------------------------------------------------ claims
\* the months of the time axis
Months == 0 .. horizon

\* C1: the session starts with horizon 12 and the extension off; after n
\* extension clicks, interleaved with any campaign clicks, horizon is
\* 12 + 12 n (24 after one) and extension_active holds exactly when n >= 1.
C1_HorizonAfterExtensions ==
    /\ horizon = 12 + 12 * n_ext
    /\ extension_active <=> n_ext >= 1
    /\ n_ext = 0 => horizon = 12 /\ ~extension_active
    /\ n_ext = 1 => horizon = 24 /\ extension_active

C1_Witness ==
    /\ n_ext = 2
    /\ horizon = 36
    /\ extension_active
    /\ vm_month # None

\* C2: the campaign month is last-write-wins: after every run vm_month is
\* the month of the most recent campaign click (none before the first), an
\* extension click leaves it alone, and once set it never returns to none.
C2_LastCampaignWins ==
    /\ vm_month = None
    /\ last_campaign = None
    /\ [][/\ vm_month' = last_campaign'
          /\ horizon' # horizon => vm_month' = vm_month
          /\ vm_month # None => vm_month' # None]_vars

C2_Witness ==
    /\ vm_month # None
    /\ vm_month = last_campaign
    /\ n_ext = 2
    /\ Month(vm_month) = 3

\* C3: in every state, at every month of the axis 0..horizon, the confidence
\* lies in [0, 1] and the acquisition is >= 0.
C3_ConfidenceAndAcquisitionBounds ==
    /\ DOMAIN c_t = Months
    /\ DOMAIN med_t = Months
    /\ \A m \in Months :
        /\ 0 <= c_t[m]
        /\ c_t[m] <= ConfScale
        /\ med_t[m] >= 0

C3_Witness ==
    /\ extension_active
    /\ vm_month # None
    /\ \E m \in Months : 0 < c_t[m] /\ c_t[m] < ConfScale
    /\ c_t[horizon] = 0
    /\ med_t[horizon] > 0

\* C4: with a campaign at month m, at every month t >= m the confidence is
\* the larger of the base curve at t and the same 10-month curve at t - m;
\* confidence(m) is 1.0, and for m = 6 confidence(10) is the campaign curve
\* 4 months after its anchor, 1 - (4/10)^3 > 0, where the base curve is 0.
C4_CampaignReset ==
    vm_month # None =>
        LET m == Month(vm_month)
            curve(x) == IF 0 <= x /\ x <= 10 THEN 1000 - x * x * x ELSE 0
        IN /\ \A t \in m .. horizon :
                c_t[t] = IF curve(t) >= curve(t - m) THEN curve(t) ELSE curve(t - m)
           /\ c_t[m] = ConfScale
           /\ m = 6 => c_t[10] = 936 /\ c_t[10] > 0 /\ curve(10) = 0

C4_Witness ==
    /\ vm_month = Some(6)
    /\ c_t[6] = ConfScale
    /\ c_t[10] = 936

\* C5: the acquisition is the sum of the active waves: the base wave from
\* month 0 alone while the extension is off (the extension wave is 0 at every
\* month), the base wave plus one wave anchored at month 12 once it is on,
\* whatever the number of extension clicks: that wave is at 1% of its target
\* at month 12, at 50% at month 15 and at 99% at month 18.
C5_AcquisitionWaves ==
    /\ \A t \in Months :
        /\ med_phase1[t] = nb_med_target * Logistic(t, 3)
        /\ med_t[t] = med_phase1[t] + med_phase2[t]
        /\ ~extension_active => med_phase2[t] = 0 /\ med_t[t] = med_phase1[t]
        /\ extension_active => med_phase2[t] = nb_med_new * Logistic(t, 12 + 3)
    /\ extension_active =>
        /\ 100 * med_phase2[12] = nb_med_new * SigScale
        /\ 2 * med_phase2[15] = nb_med_new * SigScale
        /\ 100 * med_phase2[18] = 99 * nb_med_new * SigScale

C5_Witness ==
    /\ n_ext = 2
    /\ nb_med_new > 0
    /\ med_phase2[12] > 0
    /\ med_t[horizon] > med_phase1[horizon]

\* C6: the cumulated revenue is the running sum of the monthly revenue, every
\* monthly revenue is >= 0, and the cumulated revenue never decreases along
\* the axis.
C6_CumulativeRevenueMonotone ==
    /\ DOMAIN revenu_cumule = Months
    /\ revenu_cumule[0] = revenu_mensuel[0]
    /\ \A t \in Months : revenu_mensuel[t] >= 0
    /\ \A t \in 1 .. horizon :
        /\ revenu_cumule[t] = revenu_cumule[t - 1] + revenu_mensuel[t]
        /\ revenu_cumule[t] >= revenu_cumule[t - 1]

C6_Witness ==
    /\ n_ext >= 1
    /\ revenu_cumule[12] > revenu_cumule[0]
    /\ revenu_cumule[horizon] > revenu_cumule[12]
    /\ revenu_mensuel[horizon] = 0

\* C7: the ROI compares the cumulated revenue of month 12 with the project
\* cost: horizon >= 12 in every state, so the index min(12, len - 1) is 12
\* and never the last index; with a project cost of 0 there is no ROI value.
C7_RoiWindow ==
    /\ horizon >= 12
    /\ RoiIndex(horizon + 1) = 12
    /\ roi # None
    /\ roi = <<revenu_cumule[12], COUT_PROJET>>
    /\ Roi(revenu_cumule[12], 0) = None

C7_Witness ==
    /\ n_ext >= 1
    /\ revenu_cumule[horizon] > revenu_cumule[12]
    /\ roi = <<revenu_cumule[12], COUT_PROJET>>

\* C8: a campaign changes nothing before its month: at every month
\* t < vm_month the confidence is the base curve 1 - (t/10)^3 (0 after 10).
C8_CampaignLeavesEarlierMonths ==
    vm_month # None =>
        \A t \in Months :
            t < Month(vm_month) =>
                c_t[t] = IF t <= 10 THEN 1000 - t * t * t ELSE 0

\* C9, as amended: with no campaign, from month 10 on the confidence, the
\* diagnostics, the treated patients and the monthly revenue are 0 and the
\* cumulated revenue stays at its month-10 value, whatever the number of
\* extensions: the extension wave earns nothing at any month t >= 10.
C9_NoCampaignNoRevenueFromMonth10 ==
    vm_month = None =>
        \A t \in 10 .. horizon :
            /\ c_t[t] = 0
            /\ diag_t[t] = 0
            /\ traites_t[t] = 0
            /\ revenu_mensuel[t] = 0
            /\ revenu_cumule[t] = revenu_cumule[10]

C9_Witness ==
    /\ vm_month = None
    /\ n_ext = 2
    /\ med_phase2[horizon] > 0
    /\ pot_diag > 0 /\ taux_trait_pct > 0 /\ prix > 0
    /\ revenu_mensuel[horizon] = 0
    /\ revenu_cumule[horizon] = revenu_cumule[10]

\* C9, as claimed: the above, and with no campaign the extension wave adds no
\* revenue at all: every monthly revenue is that of the base wave alone.
C9_ExtensionAddsNoRevenue ==
    /\ C9_NoCampaignNoRevenueFromMonth10
    /\ vm_month = None =>
        \A t \in Months :
            revenu_mensuel[t] =
                med_phase1[t] * pot_diag * c_t[t] * taux_trait_pct * prix

\* C10: vm_month is none or a month of the axis, 0 <= vm_month <= horizon,
\* after any interleaving of campaign and extension clicks.
C10_CampaignMonthOnAxis ==
    vm_month = None \/ (0 <= Month(vm_month) /\ Month(vm_month) <= horizon)

C10_Witness ==
    /\ n_ext = 2
    /\ vm_month # None
    /\ Month(vm_month) = horizon

====
